---- MODULE Spec2Model ----
(***************************************************************************)
(* A model of the task management API: the user store and the task store   *)
(* (one relational database shared by every server worker), the signup,    *)
(* login and task handlers, and the bearer-token dependency.                *)
(*                                                                         *)
(* A handler that talks to the database more than once is split at its     *)
(* database calls: workers share nothing but the database, so two handlers *)
(* interleave exactly there.  Time is counted in whole clock ticks, the     *)
(* resolution of a token's exp claim.                                       *)
(***************************************************************************)
EXTENDS Integers, Sequences, FiniteSets, TLC

----------------------------------------------------------------------------
(* Bounds of the model *)

MaxTasks == 2
MaxTime == 2
\* the clock readings the task specification runs through
MaxTaskTime == 1
\* timedelta(minutes=30) of login_for_access_token, counted in clock ticks
TokenTtl == 1
\* the tasks the whole-service specification lets exist
MaxServiceTasks == 1
\* how many of the tokens handed out the model keeps track of
MaxIssued == 1
\* the largest skip and limit a list request is sent with
MaxPage == 3

Emails == {"a@x.io", "b@x.io"}
Passwords == {"Passw0rd", "S3cretPw"}
Salts == {1, 2}
SignupSlots == {1, 2}
UpdateSlots == {1, 2}

\* JSON null / Python None, and a claim or id that is not there
Null == "<null>"
NoClaim == "<none>"
NoId == 0

----------------------------------------------------------------------------
VARIABLES
  users,      \* the users table: a set of rows [id, email, hashed_password]
  nextUserId, \* the users table's id sequence
  tasks,      \* the tasks table: a function from task id to row
  nextTaskId, \* the tasks table's id sequence
  now,        \* the clock (UTC, whole seconds)
  issued,     \* tokens login has handed out (those the model keeps track of)
  signups,    \* the signup requests in flight, by worker slot
  updating    \* the update requests in flight, by worker slot

vars == <<users, nextUserId, tasks, nextTaskId, now, issued, signups, updating>>

----------------------------------------------------------------------------
(* Password hasher (pwdlib, Argon2): a salted one-way hash *)

hash_password(plain_password, salt) ==
  [salt |-> salt, digest |-> <<salt, plain_password>>]

\* a faulty variant: a verification that looks at the salt alone
VerifyIgnoringPassword(plain_password, hashed_password) ==
  hashed_password.digest[1] = hashed_password.salt

verify_password(plain_password, hashed_password) ==
  hashed_password.digest = <<hashed_password.salt, plain_password>>

----------------------------------------------------------------------------
(* The users table *)

UserByEmail(email) == {u \in users : u.email = email}
UserById(id) == {u \in users : u.id = id}

\* a faulty variant: the email column without its unique constraint
NoUniqueConstraint(email) == FALSE

\* email: Field(unique=True): the store refuses a second row with the email
UniqueViolation(email) == UserByEmail(email) # {}

UserResponse(user) == [id |-> user.id, email |-> user.email]

----------------------------------------------------------------------------
(* Responses.  A handler is an operator from the request and the database  *)
(* as it is to the response and the database as the handler leaves it; the *)
(* action of the handler applies it.  fault marks a response caused by a    *)
(* failure of the environment after the handler's commit.                   *)

NoBody == <<>>

Response(op, status, detail, caller, id, fault, body) ==
  [op |-> op, status |-> status, detail |-> detail, caller |-> caller,
   id |-> id, fault |-> fault, body |-> body]

----------------------------------------------------------------------------
(* POST /users/signup *)

IdleSignup == [pc |-> "idle", email |-> "", hashed_password |-> hash_password("", 0)]

UserResult(response, table, seq) ==
  [resp |-> response, users |-> table, nextUserId |-> seq]

SignupConflict ==
  Response("signup_user", 409, "Email already registered", NoId, NoId, FALSE, NoBody)

\* "except Exception" comes before "except IntegrityError": the first clause
\* catches the constraint violation as well
SignupIntegrityError ==
  Response("signup_user", 500, "Error occurred during user creation", NoId, NoId,
           FALSE, NoBody)

\* db.add, db.commit, db.refresh and the response, on the database as it is
\* when the commit arrives.  fail: refresh or the construction of the
\* response raises after the commit; the rollback that follows finds
\* nothing left to undo.
signup_commit(email, hashed_password, fail) ==
  IF UniqueViolation(email)
    THEN UserResult(SignupIntegrityError, users, nextUserId)
    ELSE LET db_user == [id |-> nextUserId, email |-> email,
                         hashed_password |-> hashed_password]
         IN UserResult(
              IF fail
                THEN Response("signup_user", 500, "Error occurred during user creation",
                              NoId, NoId, TRUE, NoBody)
                ELSE Response("signup_user", 201, "", db_user.id, NoId, FALSE,
                              <<UserResponse(db_user)>>),
              users \cup {db_user}, nextUserId + 1)

\* the pre-check query of signup_user
EmailRegistered(email) == UserByEmail(email) # {}

Upper ==
  {"A", "B", "C", "D", "E", "F", "G", "H", "I", "J", "K", "L", "M",
   "N", "O", "P", "Q", "R", "S", "T", "U", "V", "W", "X", "Y", "Z"}
Lower ==
  {"a", "b", "c", "d", "e", "f", "g", "h", "i", "j", "k", "l", "m",
   "n", "o", "p", "q", "r", "s", "t", "u", "v", "w", "x", "y", "z"}
Digits == {"0", "1", "2", "3", "4", "5", "6", "7", "8", "9"}

\* re.search(class, v): some character of v is in the class
Search(class, v) == \E i \in 1..Len(v) : SubSeq(v, i, i) \in class

\* a faulty variant: a validator that checks the length alone
ValidateLengthOnly(v) == Len(v) >= 8

\* UserCreate.validate_password_strength: TRUE when no ValueError is raised
validate_password_strength(v) ==
  /\ ~(Len(v) < 8)
  /\ Search(Upper, v)
  /\ Search(Lower, v)
  /\ Search(Digits, v)

\* FastAPI's answer to a body UserCreate refuses
SignupValidationError ==
  Response("signup_user", 422, "validation error", NoId, NoId, FALSE, NoBody)

\* the whole handler with no other worker's step in between
signup_user(email, password, salt, fail) ==
  IF ~validate_password_strength(password)
    THEN UserResult(SignupValidationError, users, nextUserId)
  ELSE IF EmailRegistered(email)
    THEN UserResult(SignupConflict, users, nextUserId)
  ELSE signup_commit(email, hash_password(password, salt), fail)

\* the pre-check, then the password hash and the UserModel instance
SignupStart(s, email, password, salt) ==
  /\ signups[s].pc = "idle"
  /\ signups' = IF ~validate_password_strength(password) \/ EmailRegistered(email)
       THEN signups
       ELSE [signups EXCEPT ![s] =
               [pc |-> "checked", email |-> email,
                hashed_password |-> hash_password(password, salt)]]
  /\ UNCHANGED <<users, nextUserId, tasks, nextTaskId, now, issued, updating>>

SignupCommit(s, fail) ==
  /\ signups[s].pc = "checked"
  /\ LET out == signup_commit(signups[s].email, signups[s].hashed_password, fail)
     IN /\ fail => out.resp.fault
        /\ users' = out.users
        /\ nextUserId' = out.nextUserId
  /\ signups' = [signups EXCEPT ![s] = IdleSignup]
  /\ UNCHANGED <<tasks, nextTaskId, now, issued, updating>>

SignupUser(email, password, salt, fail) ==
  /\ \A s \in SignupSlots : signups[s].pc = "idle"
  /\ LET out == signup_user(email, password, salt, fail)
     IN /\ fail => out.resp.fault
        /\ users' = out.users
        /\ nextUserId' = out.nextUserId
  /\ UNCHANGED <<tasks, nextTaskId, now, issued, signups, updating>>

----------------------------------------------------------------------------
(* Token service (python-jose, HS256) *)

\* a bearer token as the server sees it: form is "missing" (no Authorization
\* header), "malformed" (not a JWT) or "jwt"; sig tells whether the signature
\* verifies under SECRET_KEY
Token(form, sig, sub, user_id, exp) ==
  [form |-> form, sig |-> sig, sub |-> sub, user_id |-> user_id, exp |-> exp]

\* a faulty variant: a token that carries the subject and no user_id
TokenWithoutUserId(sub, user_id, expires_delta) ==
  Token("jwt", "good", sub, NoId, now + expires_delta)

\* expire = datetime.utcnow() + expires_delta
create_access_token(sub, user_id, expires_delta) ==
  Token("jwt", "good", sub, user_id, now + expires_delta)

NoPayload == [ok |-> FALSE, sub |-> NoClaim, user_id |-> NoId]

\* a faulty variant: jwt.decode with the check of exp switched off
DecodeIgnoringExp(token, t) ==
  IF token.form = "jwt" /\ token.sig = "good"
    THEN [ok |-> TRUE, sub |-> token.sub, user_id |-> token.user_id]
    ELSE [ok |-> FALSE, sub |-> NoClaim, user_id |-> NoId]

\* jwt.decode at clock reading t: the signature, then the exp claim (expired
\* when exp < t); every JWTError becomes None
decode_token_at(token, t) ==
  IF token.form = "jwt" /\ token.sig = "good" /\ ~(token.exp < t)
    THEN [ok |-> TRUE, sub |-> token.sub, user_id |-> token.user_id]
    ELSE NoPayload

decode_token(token) == decode_token_at(token, now)

NoUser == [id |-> NoId, email |-> ""]

Unauthorized(detail) ==
  [ok |-> FALSE, status |-> 401, detail |-> detail, user |-> NoUser]

Authenticated(user) ==
  [ok |-> TRUE, status |-> 200, detail |-> "", user |-> UserResponse(user)]

credentials_exception == Unauthorized("Could not validate credentials")

\* OAuth2PasswordBearer: a request with no Authorization header is answered
\* before the dependency runs
oauth2_scheme(token) == token.form # "missing"

\* auth/dependencies.py: the dependency of every /tasks route
get_current_user(token) ==
  LET payload == decode_token(token) IN
  IF ~oauth2_scheme(token) THEN Unauthorized("Not authenticated")
  ELSE IF ~payload.ok THEN credentials_exception
  ELSE IF payload.sub = NoClaim THEN credentials_exception
  ELSE IF payload.user_id = NoId THEN credentials_exception
  ELSE IF UserById(payload.user_id) = {} THEN credentials_exception
  ELSE Authenticated(CHOOSE u \in UserById(payload.user_id) : TRUE)

\* routers/auth.py: GET /auth/me resolves the token on its own, by email
read_users_me(token) ==
  LET payload == decode_token(token)
      auth == IF ~oauth2_scheme(token) THEN Unauthorized("Not authenticated")
              ELSE IF ~payload.ok THEN credentials_exception
              ELSE IF payload.sub = NoClaim THEN credentials_exception
              ELSE IF UserByEmail(payload.sub) = {} THEN Unauthorized("User not found")
              ELSE Authenticated(CHOOSE u \in UserByEmail(payload.sub) : TRUE)
  IN Response("read_users_me", auth.status, auth.detail, auth.user.id, NoId, FALSE,
              IF auth.ok THEN <<auth.user>> ELSE NoBody)

ReadUsersMe(token) ==
  /\ read_users_me(token).status \in {200, 401}
  /\ UNCHANGED vars

----------------------------------------------------------------------------
(* POST /auth/token *)

\* a faulty variant: the user looked up and the password never verified
AuthenticateByEmailOnly(email, password) == UserByEmail(email)

authenticate_user(email, password) ==
  {u \in UserByEmail(email) : verify_password(password, u.hashed_password)}

login_for_access_token(email, password) ==
  LET found == authenticate_user(email, password) IN
  IF found = {}
    THEN Response("login_for_access_token", 401, "Incorrect email or password",
                  NoId, NoId, FALSE, NoBody)
    ELSE LET user == CHOOSE u \in found : TRUE
         IN Response("login_for_access_token", 200, "", user.id, NoId, FALSE,
                     <<create_access_token(user.email, user.id, TokenTtl)>>)

\* the client keeps the token it is handed
Login(email, password) ==
  /\ LET r == login_for_access_token(email, password) IN
     issued' = IF r.status = 200 /\ Cardinality(issued) < MaxIssued
                 THEN issued \cup {r.body[1]} ELSE issued
  /\ UNCHANGED <<users, nextUserId, tasks, nextTaskId, now, signups, updating>>

----------------------------------------------------------------------------
(* Task models (models/task.py) *)

TaskStatus == {"pending", "in_progress", "completed"}
TaskPriority == {"low", "medium", "high"}

\* the fields TaskCreate and TaskUpdate declare; any other key of a request
\* body is dropped when the body is parsed
TaskBaseFields == {"title", "description", "status", "priority", "due_date"}

\* a request body is a JSON object: a function from its keys to values
Parsed(body) == [f \in DOMAIN body \cap TaskBaseFields |-> body[f]]

Has(body, f) == f \in DOMAIN body

\* a faulty variant: the title's upper limit off by one
TitleOkUpTo256(title) == title # Null /\ Len(title) >= 1 /\ Len(title) <= 256

TitleOk(title) == title # Null /\ Len(title) >= 1 /\ Len(title) <= 255
DescriptionOk(description) == description = Null \/ Len(description) <= 1000

\* TaskCreate(TaskBase): title required; status and priority not nullable
ValidTaskCreate(body) ==
  /\ Has(body, "title") /\ TitleOk(body.title)
  /\ Has(body, "description") => DescriptionOk(body.description)
  /\ Has(body, "status") => body.status \in TaskStatus
  /\ Has(body, "priority") => body.priority \in TaskPriority

\* TaskUpdate: every field Optional, so null passes for each of them
ValidTaskUpdate(body) ==
  /\ Has(body, "title") => body.title = Null \/ TitleOk(body.title)
  /\ Has(body, "description") => DescriptionOk(body.description)
  /\ Has(body, "status") => body.status \in TaskStatus \cup {Null}
  /\ Has(body, "priority") => body.priority \in TaskPriority \cup {Null}

\* a faulty variant: an update model that keeps the keys it does not declare
DumpUndeclaredKeys(body) == body

\* model_dump(exclude_unset=True): the declared fields the body sets
model_dump_exclude_unset(body) == Parsed(body)

\* a faulty variant: a TaskCreate whose omitted fields are all left null
CreateWithoutDefaults(body) ==
  LET t == Parsed(body) IN
  [f \in TaskBaseFields |-> IF Has(t, f) THEN t[f] ELSE Null]

\* the parsed TaskCreate with its defaults filled in
TaskCreateOf(body) ==
  LET t == Parsed(body) IN
  [title |-> t.title,
   description |-> IF Has(t, "description") THEN t.description ELSE Null,
   status |-> IF Has(t, "status") THEN t.status ELSE "pending",
   priority |-> IF Has(t, "priority") THEN t.priority ELSE "medium",
   due_date |-> IF Has(t, "due_date") THEN t.due_date ELSE Null]

\* the Task instance create_task builds
NewTask(task, user_id, utc_now) ==
  [title |-> task.title,
   description |-> task.description,
   status |-> task.status,
   priority |-> task.priority,
   due_date |-> task.due_date,
   user_id |-> user_id,
   created_at |-> utc_now,
   updated_at |-> utc_now]

\* a faulty variant: the row replaced by the body, the fields the body leaves
\* out falling back to empty or to the model's defaults
ReplaceRow(db_task, update_data) ==
  [f \in DOMAIN db_task |->
     IF f \in DOMAIN update_data THEN update_data[f]
     ELSE CASE f = "title" -> ""
            [] f = "status" -> "pending"
            [] f = "priority" -> "medium"
            [] f \in {"description", "due_date"} -> Null
            [] OTHER -> db_task[f]]

\* for field, value in update_data.items(): setattr(db_task, field, value)
SetAttrs(db_task, update_data) ==
  [f \in DOMAIN db_task |->
     IF f \in DOMAIN update_data THEN update_data[f] ELSE db_task[f]]

\* a faulty variant: every column of tasks nullable
NullableColumns(row) == FALSE

\* the columns of tasks declared without Optional are NOT NULL
NotNullViolation(row) ==
  row.title = Null \/ row.status = Null \/ row.priority = Null

TaskResponse(id, row) == [id |-> id] @@ row

TaskExists(task_id) == task_id \in DOMAIN tasks

\* a faulty variant: the ownership check left out
OwnerCheckMissing(row, current_user) == FALSE

\* task.user_id != current_user.id
NotOwner(row, current_user) == row.user_id # current_user.id

TaskResult(response, table, seq) ==
  [resp |-> response, tasks |-> table, nextTaskId |-> seq]

\* the handler answers and leaves the tasks table as it is
Reply(response) == TaskResult(response, tasks, nextTaskId)

TaskUnauthorized(op, auth, id) ==
  Response(op, auth.status, auth.detail, NoId, id, FALSE, NoBody)

\* a faulty variant: an absent task answered as one of another owner
AbsentAsForbidden(op, caller, id) ==
  Response(op, 403, "Not authorized to access this task", caller, id, FALSE, NoBody)

\* detail=f"Task with id {task_id} not found": the id is the response's id
NotFound(op, caller, id) ==
  Response(op, 404, "Task with id not found", caller, id, FALSE, NoBody)

ForbiddenDetail(op) ==
  CASE op = "get_task" -> "Not authorized to access this task"
    [] op = "delete_task" -> "Not authorized to delete this task"
    [] OTHER -> "Not authorized to update this task"

Forbidden(op, caller, id) ==
  Response(op, 403, ForbiddenDetail(op), caller, id, FALSE, NoBody)

\* FastAPI's answer to a body that does not parse as the declared model
ValidationError(op, caller, id) ==
  Response(op, 422, "validation error", caller, id, FALSE, NoBody)

\* an exception no handler catches; the session closes without a commit
ServerError(op, caller, id, fault) ==
  Response(op, 500, "Internal Server Error", caller, id, fault, NoBody)

----------------------------------------------------------------------------
(* POST /tasks/ *)

\* fail: session.refresh or TaskResponse.model_validate raises after the
\* commit; nothing in create_task catches it or undoes the commit
create_task(token, body, fail) ==
  LET auth == get_current_user(token)
      caller == auth.user.id
      id == nextTaskId
      db_task == NewTask(TaskCreateOf(body), caller, now)
  IN IF ~auth.ok THEN Reply(TaskUnauthorized("create_task", auth, NoId))
     ELSE IF ~ValidTaskCreate(body)
       THEN Reply(ValidationError("create_task", caller, NoId))
     ELSE TaskResult(
            IF fail THEN ServerError("create_task", caller, id, TRUE)
            ELSE Response("create_task", 201, "", caller, id, FALSE,
                          <<TaskResponse(id, db_task)>>),
            (id :> db_task) @@ tasks, nextTaskId + 1)

CreateTask(token, body, fail) ==
  /\ LET out == create_task(token, body, fail)
     IN /\ fail => out.resp.fault
        /\ out.nextTaskId <= MaxTasks + 1
        /\ tasks' = out.tasks
        /\ nextTaskId' = out.nextTaskId
  /\ UNCHANGED <<users, nextUserId, now, issued, signups, updating>>

----------------------------------------------------------------------------
(* GET /tasks/ and GET /tasks/{task_id} *)

RECURSIVE IdsInOrder(_)
IdsInOrder(ids) ==
  IF ids = {} THEN <<>>
  ELSE LET least == CHOOSE i \in ids : \A j \in ids : i <= j
       IN <<least>> \o IdsInOrder(ids \ {least})

\* .offset(skip).limit(limit) of the rows the store yields in the order mine,
\* for skip >= 0 and limit >= 0
SelectFrom(mine, skip, limit) ==
  LET first == skip + 1
      last == IF skip + limit < Len(mine) THEN skip + limit ELSE Len(mine)
  IN [k \in 1..(IF last >= first THEN last - first + 1 ELSE 0) |->
        TaskResponse(mine[first + k - 1], tasks[mine[first + k - 1]])]

\* a faulty variant: the select without its where clause
SelectAllTasks(user_id, skip, limit) ==
  SelectFrom(IdsInOrder(DOMAIN tasks), skip, limit)

\* select(Task).where(Task.user_id == current_user.id).offset(skip).limit(limit),
\* the rows coming in primary-key order
SelectTasks(user_id, skip, limit) ==
  SelectFrom(IdsInOrder({i \in DOMAIN tasks : tasks[i].user_id = user_id}),
             skip, limit)

get_tasks(token, skip, limit) ==
  LET auth == get_current_user(token) IN
  IF ~auth.ok THEN TaskUnauthorized("get_tasks", auth, NoId)
  ELSE Response("get_tasks", 200, "", auth.user.id, NoId, FALSE,
                SelectTasks(auth.user.id, skip, limit))

GetTasks(token, skip, limit) ==
  /\ get_tasks(token, skip, limit).status \in {200, 401}
  /\ UNCHANGED vars

get_task(token, task_id) ==
  LET auth == get_current_user(token)
      caller == auth.user.id
  IN IF ~auth.ok THEN TaskUnauthorized("get_task", auth, task_id)
     ELSE IF ~TaskExists(task_id) THEN NotFound("get_task", caller, task_id)
     ELSE IF NotOwner(tasks[task_id], auth.user)
       THEN Forbidden("get_task", caller, task_id)
     ELSE Response("get_task", 200, "", caller, task_id, FALSE,
                   <<TaskResponse(task_id, tasks[task_id])>>)

GetTask(token, task_id) ==
  /\ get_task(token, task_id).status \in {200, 401, 403, 404}
  /\ UNCHANGED vars

----------------------------------------------------------------------------
(* PUT /tasks/{task_id} and PATCH /tasks/{task_id}: the same body twice *)

\* fail: session.refresh or TaskResponse.model_validate raises after the
\* commit
update_handler(op, token, task_id, body, fail) ==
  LET auth == get_current_user(token)
      caller == auth.user.id
      db_task == [SetAttrs(tasks[task_id], model_dump_exclude_unset(body))
                    EXCEPT !.updated_at = now]
  IN IF ~auth.ok THEN Reply(TaskUnauthorized(op, auth, task_id))
     ELSE IF ~ValidTaskUpdate(body) THEN Reply(ValidationError(op, caller, task_id))
     ELSE IF ~TaskExists(task_id) THEN Reply(NotFound(op, caller, task_id))
     ELSE IF NotOwner(tasks[task_id], auth.user)
       THEN Reply(Forbidden(op, caller, task_id))
     ELSE IF NotNullViolation(db_task)
       THEN Reply(ServerError(op, caller, task_id, FALSE))
     ELSE TaskResult(
            IF fail THEN ServerError(op, caller, task_id, TRUE)
            ELSE Response(op, 200, "", caller, task_id, FALSE,
                          <<TaskResponse(task_id, db_task)>>),
            [tasks EXCEPT ![task_id] = db_task], nextTaskId)

update_task(token, task_id, body, fail) ==
  update_handler("update_task", token, task_id, body, fail)

partial_update_task(token, task_id, body, fail) ==
  update_handler("partial_update_task", token, task_id, body, fail)

UpdateTask(token, task_id, body, fail) ==
  /\ LET out == update_task(token, task_id, body, fail)
     IN /\ fail => out.resp.fault
        /\ tasks' = out.tasks
  /\ UNCHANGED <<users, nextUserId, nextTaskId, now, issued, signups, updating>>

PartialUpdateTask(token, task_id, body, fail) ==
  /\ LET out == partial_update_task(token, task_id, body, fail)
     IN /\ fail => out.resp.fault
        /\ tasks' = out.tasks
  /\ UNCHANGED <<users, nextUserId, nextTaskId, now, issued, signups, updating>>

----------------------------------------------------------------------------
(* PUT and PATCH with other workers' requests in between.  The handler     *)
(* talks to the database at session.get and at session.commit; between the *)
(* two it reads the clock.  The commit flushes an UPDATE of the columns     *)
(* whose value differs from the value loaded, and of no other column.       *)

IdleUpdate == [pc |-> "idle"]

\* session.get and the two checks; a request refused here is answered at
\* once and leaves nothing in flight
UpdateRead(s, op, token, task_id, body) ==
  LET auth == get_current_user(token) IN
  /\ updating[s].pc = "idle"
  /\ updating' =
       IF /\ auth.ok /\ ValidTaskUpdate(body) /\ TaskExists(task_id)
          /\ ~NotOwner(tasks[task_id], auth.user)
         THEN [updating EXCEPT ![s] =
                 [pc |-> "loaded", op |-> op, caller |-> auth.user.id,
                  id |-> task_id, loaded |-> tasks[task_id],
                  db_task |-> SetAttrs(tasks[task_id], model_dump_exclude_unset(body)),
                  update_data |-> model_dump_exclude_unset(body)]]
         ELSE updating
  /\ UNCHANGED <<users, nextUserId, tasks, nextTaskId, now, issued, signups>>

\* db_task.updated_at = datetime.now(timezone.utc)
UpdateStamp(s) ==
  /\ updating[s].pc = "loaded"
  /\ updating' = [updating EXCEPT ![s].pc = "stamped", ![s].db_task.updated_at = now]
  /\ UNCHANGED <<users, nextUserId, tasks, nextTaskId, now, issued, signups>>

\* the columns the unit of work finds modified
Dirty(loaded, db_task) == {f \in DOMAIN db_task : db_task[f] # loaded[f]}

\* session.commit and session.refresh on the table as it is when the commit
\* arrives: UPDATE tasks SET <modified columns> WHERE id = task_id; an UPDATE
\* that matches no row, a NOT NULL violation, or a refresh that finds no row
\* raise, and nothing is written
update_commit(op, caller, task_id, loaded, db_task) ==
  LET columns == Dirty(loaded, db_task)
      row == [f \in DOMAIN db_task |->
                IF f \in columns THEN db_task[f] ELSE tasks[task_id][f]]
  IN IF ~TaskExists(task_id) THEN Reply(ServerError(op, caller, task_id, FALSE))
     ELSE IF NotNullViolation(db_task)
       THEN Reply(ServerError(op, caller, task_id, FALSE))
     ELSE TaskResult(Response(op, 200, "", caller, task_id, FALSE,
                              <<TaskResponse(task_id, row)>>),
                     [tasks EXCEPT ![task_id] = row], nextTaskId)

UpdateCommit(s) ==
  /\ updating[s].pc = "stamped"
  /\ tasks' = update_commit(updating[s].op, updating[s].caller, updating[s].id,
                            updating[s].loaded, updating[s].db_task).tasks
  /\ updating' = [updating EXCEPT ![s] = IdleUpdate]
  /\ UNCHANGED <<users, nextUserId, nextTaskId, now, issued, signups>>

----------------------------------------------------------------------------
(* DELETE /tasks/{task_id} *)

\* a faulty variant: a delete that answers 204 and leaves the row in place
DeleteKeepsRow(token, task_id) ==
  LET auth == get_current_user(token)
      caller == auth.user.id
  IN IF ~auth.ok THEN Reply(TaskUnauthorized("delete_task", auth, task_id))
     ELSE IF ~TaskExists(task_id) THEN Reply(NotFound("delete_task", caller, task_id))
     ELSE IF NotOwner(tasks[task_id], auth.user)
       THEN Reply(Forbidden("delete_task", caller, task_id))
     ELSE Reply(Response("delete_task", 204, "", caller, task_id, FALSE, NoBody))

delete_task(token, task_id) ==
  LET auth == get_current_user(token)
      caller == auth.user.id
  IN IF ~auth.ok THEN Reply(TaskUnauthorized("delete_task", auth, task_id))
     ELSE IF ~TaskExists(task_id) THEN Reply(NotFound("delete_task", caller, task_id))
     ELSE IF NotOwner(tasks[task_id], auth.user)
       THEN Reply(Forbidden("delete_task", caller, task_id))
     ELSE TaskResult(
            Response("delete_task", 204, "", caller, task_id, FALSE, NoBody),
            [i \in DOMAIN tasks \ {task_id} |-> tasks[i]], nextTaskId)

DeleteTask(token, task_id) ==
  /\ tasks' = delete_task(token, task_id).tasks
  /\ UNCHANGED <<users, nextUserId, nextTaskId, now, issued, signups, updating>>

----------------------------------------------------------------------------
(* The system *)

Init ==
  /\ users = {}
  /\ nextUserId = 1
  /\ tasks = <<>>
  /\ nextTaskId = 1
  /\ now = 0
  /\ issued = {}
  /\ signups = [s \in SignupSlots |-> IdleSignup]
  /\ updating = [s \in UpdateSlots |-> IdleUpdate]

Tick(last) ==
  /\ now < last
  /\ now' = now + 1
  /\ UNCHANGED <<users, nextUserId, tasks, nextTaskId, issued, signups, updating>>

----------------------------------------------------------------------------
(* Requests *)

NoToken == Token("missing", "", NoClaim, NoId, 0)

UserIds == 1..Cardinality(Emails)
TaskIds == 1..(MaxTasks + 1)
Times == 0..(MaxTime + TokenTtl)

\* every bearer token a request may carry: none, one that is no JWT, and
\* JWTs of every content, signed with the server's key or with another
TokenInputs ==
  {NoToken, Token("malformed", "", NoClaim, NoId, 0)}
    \cup {Token("jwt", sig, sub, user_id, exp) :
            sig \in {"good", "bad"}, sub \in Emails \cup {NoClaim},
            user_id \in UserIds \cup {NoId}, exp \in Times}

\* the token login would hand to each stored user now, and no token
UserTokens ==
  {create_access_token(u.email, u.id, TokenTtl) : u \in users} \cup {NoToken}

\* request bodies; a body may carry keys the models do not declare
CreateBodies ==
  {[title |-> "T"],
   [title |-> "T", description |-> "D", priority |-> "high"],
   [title |-> "T", user_id |-> 1, created_at |-> 0],
   [title |-> "T", user_id |-> 2, created_at |-> 0],
   [title |-> ""],
   [description |-> "D"]}

UpdateBodies ==
  {[title |-> "New"],
   [status |-> "completed", description |-> Null],
   [title |-> "New", user_id |-> 1, created_at |-> 0],
   [title |-> "New", user_id |-> 2, created_at |-> 0],
   [title |-> Null],
   [title |-> ""],
   [priority |-> "urgent"]}

\* the bodies the task specification sends: a plain one, and one that names
\* an owner and a creation time
SentCreateBodies ==
  {[title |-> "T"], [title |-> "T", user_id |-> 2, created_at |-> 0]}

SentUpdateBodies ==
  {[title |-> "New"], [title |-> "New", user_id |-> 2, created_at |-> 0]}

\* update bodies that set a field to null: TaskUpdate declares every field
\* Optional and lets them through
NullingBodies ==
  {[title |-> Null], [status |-> Null], [priority |-> Null],
   [title |-> "New", status |-> Null, priority |-> Null]}

----------------------------------------------------------------------------
(* The whole service, each handler running with no other in between.  A    *)
(* request carries the token login would hand out now: presenting an older *)
(* token that is still accepted resolves to the same user.                 *)

\* who signs up in the whole-service runs, and with which password
Credentials == {<<"a@x.io", "Passw0rd">>, <<"b@x.io", "S3cretPw">>}

Next ==
  \/ Tick(MaxTime)
  \/ \E c \in Credentials, fail \in BOOLEAN : SignupUser(c[1], c[2], 1, fail)
  \/ \E email \in Emails, password \in Passwords : Login(email, password)
  \/ \E token \in issued \cup {NoToken} : ReadUsersMe(token)
  \/ \E token \in UserTokens, fail \in BOOLEAN :
       /\ nextTaskId <= MaxServiceTasks
       /\ CreateTask(token, [title |-> "T"], fail)
  \/ \E token \in UserTokens : GetTasks(token, 0, 100)
  \/ \E token \in UserTokens, task_id \in DOMAIN tasks : GetTask(token, task_id)
  \/ \E token \in UserTokens, task_id \in DOMAIN tasks, fail \in BOOLEAN :
       UpdateTask(token, task_id, [title |-> "New"], fail)
  \/ \E token \in UserTokens, task_id \in DOMAIN tasks, fail \in BOOLEAN :
       PartialUpdateTask(token, task_id, [title |-> "New"], fail)
  \/ \E token \in UserTokens, task_id \in DOMAIN tasks : DeleteTask(token, task_id)

Spec == Init /\ [][Next]_vars

(* Signup alone, its two database calls interleaving between workers *)

\* the passwords the signup specification sends: the two that conform and
\* one with no uppercase letter
SentPasswords == Passwords \cup {"passw0rd"}

NextSignup ==
  \/ \E s \in SignupSlots, email \in Emails, password \in SentPasswords,
        salt \in Salts : SignupStart(s, email, password, salt)
  \/ \E s \in SignupSlots, fail \in BOOLEAN : SignupCommit(s, fail)

SpecSignup == Init /\ [][NextSignup]_vars

(* The task routes, with no failure of the environment after a commit *)

NextTasks ==
  \/ Tick(MaxTaskTime)
  \/ \E email \in Emails : SignupUser(email, "Passw0rd", 1, FALSE)
  \/ \E token \in UserTokens, body \in SentCreateBodies :
       CreateTask(token, body, FALSE)
  \/ \E token \in UserTokens : GetTasks(token, 0, 100)
  \/ \E token \in UserTokens, task_id \in TaskIds : GetTask(token, task_id)
  \/ \E token \in UserTokens, task_id \in DOMAIN tasks,
        body \in SentUpdateBodies \cup NullingBodies :
       UpdateTask(token, task_id, body, FALSE)
  \/ \E token \in UserTokens, task_id \in DOMAIN tasks,
        body \in SentUpdateBodies \cup NullingBodies :
       PartialUpdateTask(token, task_id, body, FALSE)
  \/ \E token \in UserTokens, task_id \in TaskIds : DeleteTask(token, task_id)

SpecTasks == Init /\ [][NextTasks]_vars

(* Updates of one user's task racing on two workers *)

\* the bodies the racing updates carry: one renames the task, one names the
\* title the task was created with
RacingBodies == {[title |-> "New"], [title |-> "T"]}

\* the route each worker serves: the two handlers have the same statements
RouteOf(s) == IF s = 1 THEN "update_task" ELSE "partial_update_task"

NextUpdates ==
  \/ Tick(MaxTime)
  \/ SignupUser("a@x.io", "Passw0rd", 1, FALSE)
  \/ \E token \in UserTokens :
       /\ nextTaskId <= MaxServiceTasks
       /\ CreateTask(token, [title |-> "T"], FALSE)
  \/ \E s \in UpdateSlots, token \in UserTokens, task_id \in DOMAIN tasks,
        body \in RacingBodies :
       UpdateRead(s, RouteOf(s), token, task_id, body)
  \/ \E s \in UpdateSlots : UpdateStamp(s)
  \/ \E s \in UpdateSlots : UpdateCommit(s)
  \/ \E token \in UserTokens, task_id \in DOMAIN tasks : DeleteTask(token, task_id)

SpecUpdates == Init /\ [][NextUpdates]_vars

----------------------------------------------------------------------------
(* Claims about signup *)

\* C2 (as claimed): of two signups with one email, run one after the other or
\* interleaved, one is answered 201 and the other 409: a signup that finds
\* the email registered at its pre-check is answered 409; one that passed the
\* pre-check and reaches its commit after the other's is answered 409 too,
\* not 500 and not 201; one that commits first is answered 201.
C2_SecondSignupIsConflict ==
  /\ \A email \in Emails, password \in Passwords, salt \in Salts :
       signup_user(email, password, salt, FALSE).resp.status =
         IF EmailRegistered(email) THEN 409 ELSE 201
  /\ \A s \in SignupSlots :
       signups[s].pc = "checked" =>
         signup_commit(signups[s].email, signups[s].hashed_password, FALSE).resp.status
           = IF EmailRegistered(signups[s].email) THEN 409 ELSE 201

\* a signup passed its pre-check and another worker registered the email
\* before its commit
LostRace(s) ==
  signups[s].pc = "checked" /\ EmailRegistered(signups[s].email)

\* C3: no two user records have the same email; a signup that fails the
\* uniqueness check, at the pre-check or at the store's constraint, adds no
\* record and leaves the users table, the record holding the email included,
\* as it was.
C3_EmailUnique ==
  /\ \A u1 \in users, u2 \in users : u1.email = u2.email => u1 = u2
  /\ \A email \in Emails, password \in Passwords, salt \in Salts, fail \in BOOLEAN :
       EmailRegistered(email) =>
         LET out == signup_user(email, password, salt, fail)
         IN out.resp.status # 201 /\ out.users = users
  /\ \A s \in SignupSlots, fail \in BOOLEAN :
       LostRace(s) =>
         LET out == signup_commit(signups[s].email, signups[s].hashed_password, fail)
         IN out.resp.status # 201 /\ out.users = users

\* a signup that lost the race meets the constraint, with the winner's
\* record in the table
C3_Witness ==
  \E s \in SignupSlots :
    /\ LostRace(s)
    /\ Cardinality(UserByEmail(signups[s].email)) = 1
    /\ signup_commit(signups[s].email, signups[s].hashed_password, FALSE).users = users

----------------------------------------------------------------------------
(* Claims about the task routes *)

\* the responses and the tables left by an update of either method
Updates(token, task_id, body, fail) ==
  {update_task(token, task_id, body, fail),
   partial_update_task(token, task_id, body, fail)}

\* token resolves to a stored user other than the owner of task_id
IsOtherUser(token, task_id) ==
  /\ get_current_user(token).ok
  /\ get_current_user(token).user.id # tasks[task_id].user_id

\* C1: for a task of user A and a request carrying the identity of another
\* user B: get, PUT, PATCH and delete of the task's id are answered 403 (a PUT
\* or PATCH whose body the update model accepts), never 404 and never with
\* success, and leave the tasks table as it was.
C1_OtherUserForbidden ==
  \A token \in UserTokens, task_id \in DOMAIN tasks :
    IsOtherUser(token, task_id) =>
      /\ get_task(token, task_id).status = 403
      /\ delete_task(token, task_id).resp.status = 403
      /\ delete_task(token, task_id).tasks = tasks
      /\ \A body \in UpdateBodies, fail \in BOOLEAN :
           \A out \in Updates(token, task_id, body, fail) :
             /\ ValidTaskUpdate(body) => out.resp.status = 403
             /\ out.resp.status \in {403, 422}
             /\ out.tasks = tasks

C1_Witness ==
  \E token \in UserTokens, task_id \in DOMAIN tasks :
    /\ IsOtherUser(token, task_id)
    /\ Cardinality(users) = 2
    /\ get_task(token, task_id).status = 403
    /\ update_task(token, task_id, [title |-> "New"], FALSE).resp.status = 403
    /\ delete_task(token, task_id).resp.status = 403
    /\ tasks[task_id].title = "New"

\* C5: a task's owner is the identity that issued its create request,
\* whatever the body names as user_id, and no step changes the owner or
\* created_at of a stored task: not a PUT or PATCH by any caller with any
\* body sent, a body naming user_id and created_at included.
C5_OwnerSetOnce ==
  /\ [](\A token \in UserTokens, body \in CreateBodies, fail \in BOOLEAN :
          LET out == create_task(token, body, fail)
          IN \A id \in DOMAIN out.tasks \ DOMAIN tasks :
               /\ get_current_user(token).ok
               /\ out.tasks[id].user_id = get_current_user(token).user.id
               /\ out.tasks[id].created_at = now)
  /\ [][\A id \in DOMAIN tasks \cap DOMAIN tasks' :
          /\ tasks'[id].user_id = tasks[id].user_id
          /\ tasks'[id].created_at = tasks[id].created_at
      ]_vars

\* a task updated by its owner at a later time than its creation
C5_Witness ==
  \E id \in DOMAIN tasks :
    /\ tasks[id].title = "New"
    /\ tasks[id].updated_at > tasks[id].created_at
    /\ UserById(tasks[id].user_id) # {}

\* C6: get, PUT, PATCH and delete of an id that is not in the tasks table are
\* answered 404 for every authenticated caller (a PUT or PATCH whose body the
\* update model accepts), never 403, and leave the table as it was.
C6_AbsentIsNotFound ==
  \A token \in UserTokens, task_id \in TaskIds \ DOMAIN tasks :
    get_current_user(token).ok =>
      /\ get_task(token, task_id).status = 404
      /\ delete_task(token, task_id).resp.status = 404
      /\ delete_task(token, task_id).tasks = tasks
      /\ \A body \in UpdateBodies, fail \in BOOLEAN :
           \A out \in Updates(token, task_id, body, fail) :
             /\ ValidTaskUpdate(body) => out.resp.status = 404
             /\ out.resp.status \in {404, 422}
             /\ out.tasks = tasks

\* an id whose task was deleted, an id never handed out, and a caller who
\* owns another task
C6_Witness ==
  \E token \in UserTokens, gone \in TaskIds, never \in TaskIds :
    /\ get_current_user(token).ok
    /\ gone < nextTaskId /\ gone \notin DOMAIN tasks
    /\ never >= nextTaskId
    /\ \E id \in DOMAIN tasks : tasks[id].user_id = get_current_user(token).user.id
    /\ get_task(token, gone).status = 404
    /\ delete_task(token, never).resp.status = 404

----------------------------------------------------------------------------
(* Claims about the whole service *)

\* what the protected routes answer to requests carrying token, the bodies
\* drawn from creates and updates
RouteResponses(token, creates, updates) ==
  {read_users_me(token), get_tasks(token, 0, 100)}
    \cup {get_task(token, id) : id \in TaskIds}
    \cup {create_task(token, body, FALSE).resp : body \in creates}
    \cup {out.resp : out \in UNION {Updates(token, id, body, FALSE) :
                                      id \in TaskIds, body \in updates}}
    \cup {delete_task(token, id).resp : id \in TaskIds}

ProtectedResponses(token) == RouteResponses(token, CreateBodies, UpdateBodies)

\* the tasks tables a protected route may leave behind
ProtectedTables(token) ==
  {create_task(token, body, FALSE).tasks : body \in CreateBodies}
    \cup {out.tasks : out \in UNION {Updates(token, id, body, FALSE) :
                                       id \in TaskIds, body \in UpdateBodies}}
    \cup {delete_task(token, id).tasks : id \in TaskIds}

\* C4 (as claimed): a write answered with an error has written nothing: for
\* signup, task create, task update and task delete, an error response comes
\* with the tables as they were before the request, also when the failure
\* happens after the commit, while the response is built.
C4_ErrorLeavesStoreAsItWas ==
  /\ \A email \in Emails, password \in Passwords, fail \in BOOLEAN :
       LET out == signup_user(email, password, 1, fail)
       IN out.resp.status >= 400 => out.users = users
  /\ \A token \in UserTokens, fail \in BOOLEAN :
       /\ \A body \in CreateBodies :
            LET out == create_task(token, body, fail)
            IN out.resp.status >= 400 => out.tasks = tasks
       /\ \A id \in TaskIds :
            /\ \A body \in UpdateBodies :
                 \A out \in Updates(token, id, body, fail) :
                   out.resp.status >= 400 => out.tasks = tasks
            /\ LET out == delete_task(token, id)
               IN out.resp.status >= 400 => out.tasks = tasks

\* what is wrong with a token, cause by cause, as C7 lists them
TokenDefects(token) ==
  {d \in {"missing", "malformed", "forged", "expired", "no_sub", "no_user_id",
          "unknown_user"} :
     CASE d = "missing" -> token.form = "missing"
       [] d = "malformed" -> token.form = "malformed"
       [] d = "forged" -> token.form = "jwt" /\ token.sig # "good"
       [] d = "expired" -> token.form = "jwt" /\ token.exp < now
       [] d = "no_sub" -> token.form = "jwt" /\ token.sub = NoClaim
       [] d = "no_user_id" -> token.form = "jwt" /\ token.user_id = NoId
       [] OTHER -> /\ token.form = "jwt" /\ token.user_id # NoId
                   /\ UserById(token.user_id) = {}}

\* C7 (as claimed): a request to a protected route, a /tasks route or GET
\* /auth/me, whose token has any of the defects is answered 401 and leaves
\* the tables as they were.
C7_DefectiveTokenUnauthorized ==
  \A token \in TokenInputs :
    TokenDefects(token) # {} =>
      /\ \A r \in ProtectedResponses(token) : r.status = 401
      /\ \A table \in ProtectedTables(token) : table = tasks

\* C8: a token login handed out is refused by every protected route once the
\* clock has passed its expiry (issue time + ttl) and accepted by every
\* protected route, as its user, before that: no step of the service, a
\* login, a signup or a task operation, invalidates it before its expiry or
\* revives it after.
Accepted(token) ==
  /\ get_current_user(token).ok
  /\ get_current_user(token).user.id = token.user_id
  /\ read_users_me(token).status = 200
  /\ read_users_me(token).caller = token.user_id
  /\ \A r \in RouteResponses(token, SentCreateBodies, SentUpdateBodies) :
       r.status # 401

Refused(token) ==
  \A r \in RouteResponses(token, SentCreateBodies, SentUpdateBodies) :
    r.status = 401

C8_TokenLifetime ==
  \A token \in issued :
    IF now > token.exp THEN Refused(token)
    ELSE IF now < token.exp THEN Accepted(token)
    ELSE Refused(token) \/ Accepted(token)

\* a token that outlived its ttl, after a later signup and a task of its user
C8_Witness ==
  \E token \in issued :
    /\ now > token.exp
    /\ Refused(token)
    /\ Cardinality(users) = 2
    /\ \E id \in DOMAIN tasks : tasks[id].user_id = token.user_id

\* C9 (as claimed): two rejections of a bearer token by protected routes
\* carry the same status and the same detail, whatever made each token bad.
C9_RejectionsIndistinguishable ==
  \A t1 \in TokenInputs, t2 \in TokenInputs :
    (t1.form # "missing" /\ t2.form # "missing") =>
      \A r1 \in ProtectedResponses(t1), r2 \in ProtectedResponses(t2) :
        (r1.status = 401 /\ r2.status = 401) => r1.detail = r2.detail

LoginEmails == Emails \cup {"nobody@x.io"}
LoginPasswords == Passwords \cup {"wrong"}

\* C10: login answers with a token exactly when the email is a stored user's
\* and the password verifies against that user's hash; the token carries that
\* user's email as subject, that user's id and expiry = now + ttl; every
\* other login is answered 401 with one detail and no token; the step that
\* hands a token out is a successful login, and it leaves the users table as
\* it was (a refused login changes nothing at all).
C10_LoginIssuesToken ==
  /\ [](\A email \in LoginEmails, password \in LoginPasswords :
          LET r == login_for_access_token(email, password)
              match == {u \in users : u.email = email /\
                          u.hashed_password = hash_password(password, u.hashed_password.salt)}
          IN /\ r.status = 200 <=> match # {}
             /\ r.status = 200 =>
                  \E u \in match :
                    r.body = <<Token("jwt", "good", u.email, u.id, now + TokenTtl)>>
             /\ r.status # 200 =>
                  /\ r.status = 401 /\ r.body = NoBody
                  /\ r.detail = login_for_access_token("nobody@x.io", "wrong").detail)
  /\ [][issued' # issued =>
          /\ users' = users
          /\ \E email \in LoginEmails, password \in LoginPasswords :
               LET r == login_for_access_token(email, password)
               IN r.status = 200 /\ issued' = issued \cup {r.body[1]}
      ]_vars

\* a login that succeeded for one user, with another user stored whose
\* password differs
C10_Witness ==
  \E token \in issued, u \in users, v \in users :
    /\ token.sub = u.email /\ token.user_id = u.id
    /\ v.id # u.id
    /\ v.hashed_password.digest # u.hashed_password.digest
    /\ login_for_access_token(v.email, u.hashed_password.digest[2]).status = 401

----------------------------------------------------------------------------
(* More claims about the task routes *)

\* token resolves to the stored user who owns task_id
IsOwner(token, task_id) ==
  /\ get_current_user(token).ok
  /\ get_current_user(token).user.id = tasks[task_id].user_id

\* the body sets no NOT NULL column to null
KeepsRequired(body) ==
  \A f \in {"title", "status", "priority"} : Has(body, f) => body[f] # Null

\* C11: a PUT or PATCH by the owner that succeeds sets the fields its body
\* names and updated_at, and nothing else: every other field of the task and
\* every other task keep their values, no task appears or disappears, and PUT
\* and PATCH of one body leave the same table and give the same response.
C11_SparseUpdate ==
  \A token \in UserTokens, id \in DOMAIN tasks, body \in UpdateBodies :
    IsOwner(token, id) =>
      LET put == update_task(token, id, body, FALSE)
          patch == partial_update_task(token, id, body, FALSE)
      IN /\ put.tasks = patch.tasks
         /\ put.resp.status = patch.resp.status
         /\ put.resp.detail = patch.resp.detail
         /\ put.resp.body = patch.resp.body
         /\ (ValidTaskUpdate(body) /\ KeepsRequired(body)) => put.resp.status = 200
         /\ put.resp.status = 200 =>
              /\ DOMAIN put.tasks = DOMAIN tasks
              /\ \A other \in DOMAIN tasks \ {id} : put.tasks[other] = tasks[other]
              /\ \A f \in DOMAIN tasks[id] \ {"updated_at"} :
                   put.tasks[id][f] =
                     IF f \in DOMAIN body \cap TaskBaseFields
                       THEN body[f] ELSE tasks[id][f]
              /\ put.tasks[id].updated_at = now
              /\ put.resp.body = <<TaskResponse(id, put.tasks[id])>>

\* an owner with two tasks, one of them already renamed, whose update of the
\* status alone succeeds
C11_Witness ==
  \E token \in UserTokens, id \in DOMAIN tasks, other \in DOMAIN tasks :
    /\ IsOwner(token, id) /\ other # id
    /\ tasks[id].title = "New" /\ tasks[id].updated_at < now
    /\ LET out == partial_update_task(token, id,
                    [status |-> "completed", description |-> Null], FALSE)
       IN /\ out.resp.status = 200
          /\ out.tasks[id].status = "completed"
          /\ out.tasks[id].title = "New"

\* C12 (as claimed): a successful PUT or PATCH leaves the task with
\* updated_at strictly greater than its updated_at at creation (create sets
\* created_at = updated_at, and created_at never changes, so that value is the
\* task's created_at) and with created_at as it was, also when the update
\* comes right after the create.
C12_UpdatedAfterCreation ==
  \A token \in UserTokens, id \in DOMAIN tasks, body \in SentUpdateBodies :
    \A out \in Updates(token, id, body, FALSE) :
      out.resp.status = 200 =>
        /\ out.tasks[id].created_at = tasks[id].created_at
        /\ out.tasks[id].updated_at > tasks[id].created_at

\* C13: a create that succeeds stores the task under the id it answers with:
\* the submitted fields, status pending and priority medium where the body
\* omits them, created_at = updated_at; its response is the projection of
\* that row, and a get of that id by the same caller right after the create
\* answers with the same projection.
C13_CreateThenGet ==
  /\ [](\A token \in UserTokens, body \in CreateBodies :
          LET out == create_task(token, body, FALSE)
              id == out.resp.id
          IN /\ (get_current_user(token).ok /\ ValidTaskCreate(body))
                  => out.resp.status = 201
             /\ out.resp.status = 201 =>
                  /\ id \in DOMAIN out.tasks \ DOMAIN tasks
                  /\ \A f \in DOMAIN body \cap TaskBaseFields :
                       out.tasks[id][f] = body[f]
                  /\ ~Has(body, "status") => out.tasks[id].status = "pending"
                  /\ ~Has(body, "priority") => out.tasks[id].priority = "medium"
                  /\ out.tasks[id].created_at = out.tasks[id].updated_at
                  /\ out.resp.body = <<TaskResponse(id, out.tasks[id])>>)
  /\ [][nextTaskId' # nextTaskId =>
          \A token \in UserTokens, body \in SentCreateBodies, id \in TaskIds :
            LET out == create_task(token, body, FALSE)
            IN (out.resp.status = 201 /\ out.resp.id = id /\ out.tasks = tasks') =>
                 /\ get_task(token, id)'.status = 200
                 /\ get_task(token, id)'.body = out.resp.body
      ]_vars

\* a stored task as create left it, which its owner gets back as stored
C13_Witness ==
  \E token \in UserTokens, id \in DOMAIN tasks :
    /\ IsOwner(token, id)
    /\ tasks[id].created_at = tasks[id].updated_at
    /\ tasks[id].status = "pending" /\ tasks[id].priority = "medium"
    /\ get_task(token, id).status = 200
    /\ get_task(token, id).body = <<TaskResponse(id, tasks[id])>>
    /\ create_task(token, [title |-> "T", description |-> "D", priority |-> "high"],
                   FALSE).resp.status = 201

\* the ids the sequence has handed out whose task is no longer stored
DeletedIds == {id \in TaskIds : id < nextTaskId /\ id \notin DOMAIN tasks}

\* C14: a delete by the owner answers 204 and removes that task and no other,
\* every other task staying as it was; an id once removed stays absent (no
\* step brings it back), and get, PUT, PATCH and delete of it are answered
\* 404 for every authenticated caller (a PUT or PATCH whose body the update
\* model accepts), so a second delete never succeeds.
C14_DeleteIsFinal ==
  /\ [](/\ \A token \in UserTokens, id \in DOMAIN tasks :
             LET out == delete_task(token, id)
             IN /\ IsOwner(token, id) => out.resp.status = 204
                /\ out.resp.status = 204 =>
                     /\ DOMAIN out.tasks = DOMAIN tasks \ {id}
                     /\ \A other \in DOMAIN out.tasks : out.tasks[other] = tasks[other]
        /\ \A token \in UserTokens, id \in DeletedIds :
             get_current_user(token).ok =>
               /\ get_task(token, id).status = 404
               /\ delete_task(token, id).resp.status = 404
               /\ delete_task(token, id).tasks = tasks
               /\ \A body \in SentUpdateBodies :
                    \A out \in Updates(token, id, body, FALSE) :
                      out.resp.status = 404 /\ out.tasks = tasks)
  /\ [][/\ nextTaskId' >= nextTaskId
        /\ \A id \in DOMAIN tasks' \ DOMAIN tasks : id >= nextTaskId
      ]_vars

\* a task was deleted, another is still stored, and both users ask for the
\* deleted id
C14_Witness ==
  \E gone \in DeletedIds, other \in DOMAIN tasks :
    /\ Cardinality(users) = 2
    /\ tasks[other].title = "T"
    /\ \A token \in UserTokens :
         get_current_user(token).ok =>
           /\ delete_task(token, gone).resp.status = 404
           /\ get_task(token, gone).status = 404

\* the orders in which the store may yield the rows of ids (the select has
\* no ORDER BY)
Orders(ids) ==
  {order \in [1..Cardinality(ids) -> ids] :
     \A i, j \in 1..Cardinality(ids) : order[i] = order[j] => i = j}

Min(a, b) == IF a < b THEN a ELSE b
Max(a, b) == IF a > b THEN a ELSE b

\* C15: for every authenticated caller, skip >= 0 and limit >= 0, the list
\* answers 200 with rows of the caller only, whatever other users hold: in
\* whichever order the store yields the caller's n tasks, the rows are those
\* at positions skip+1 .. of that order, Min(limit, Max(0, n - skip)) of them.
\* The handler returns a response and no table: it has nothing to write.
C15_ListOwnTasks ==
  \A token \in UserTokens, skip \in 0..MaxPage, limit \in 0..MaxPage :
    get_current_user(token).ok =>
      LET caller == get_current_user(token).user.id
          mine == {i \in DOMAIN tasks : tasks[i].user_id = caller}
          n == Cardinality(mine)
          r == get_tasks(token, skip, limit)
      IN /\ r.status = 200
         /\ Len(r.body) = Min(limit, Max(0, n - skip))
         /\ \A k \in 1..Len(r.body) :
              /\ r.body[k].user_id = caller
              /\ r.body[k].id \in mine
              /\ r.body[k] = TaskResponse(r.body[k].id, tasks[r.body[k].id])
         /\ \A order \in Orders(mine) :
              LET rows == SelectFrom(order, skip, limit)
              IN /\ Len(rows) = Min(limit, Max(0, n - skip))
                 /\ \A k \in 1..Len(rows) :
                      rows[k] = TaskResponse(order[skip + k], tasks[order[skip + k]])

\* a caller with a task, another user with a task, and a page that starts
\* past the caller's only task
C15_Witness ==
  \E token \in UserTokens, id \in DOMAIN tasks, other \in DOMAIN tasks :
    /\ IsOwner(token, id) /\ IsOtherUser(token, other)
    /\ Len(get_tasks(token, 0, 100).body) = 1
    /\ get_tasks(token, 0, 100).body[1].id = id
    /\ get_tasks(token, 1, 1).body = <<>>
    /\ get_tasks(token, 0, 0).body = <<>>

RECURSIVE Repeat(_, _)
Repeat(char, n) ==
  IF n = 0 THEN ""
  ELSE LET half == Repeat(char, n \div 2)
       IN half \o half \o (IF n % 2 = 1 THEN char ELSE "")

\* texts at the limits of the models
Title255 == Repeat("t", 255)
Title256 == Repeat("t", 256)
Description1000 == Repeat("d", 1000)
Description1001 == Repeat("d", 1001)

\* bodies the models must refuse, for a create and for an update alike
RefusedBodies ==
  {[title |-> ""],
   [title |-> Title256],
   [title |-> "T", description |-> Description1001],
   [title |-> "T", status |-> "done"],
   [title |-> "T", priority |-> "urgent"],
   [title |-> Title255, description |-> Description1000, status |-> "archived"]}

\* bodies at the limits, which the models must accept
LimitBodies ==
  {[title |-> Title255],
   [title |-> "t"],
   [title |-> "T", description |-> Description1000],
   [title |-> Title255, description |-> "", status |-> "in_progress",
    priority |-> "low"]}

\* C16: for an authenticated caller, create and update (PUT and PATCH, of any
\* id) answer 422 to every body with an empty title, a title of more than 255
\* characters, a description of more than 1000 or a status or priority outside
\* the enumeration, and leave the tasks table and the id sequence as they
\* were; a title of exactly 255 characters and a description of exactly 1000
\* are accepted: the create answers 201 and the owner's update 200.
C16_ValidationBoundary ==
  \A token \in UserTokens :
    get_current_user(token).ok =>
      /\ \A body \in RefusedBodies :
           /\ LET out == create_task(token, body, FALSE)
              IN /\ out.resp.status = 422
                 /\ out.tasks = tasks /\ out.nextTaskId = nextTaskId
           /\ \A id \in TaskIds :
                \A out \in Updates(token, id, body, FALSE) :
                  out.resp.status = 422 /\ out.tasks = tasks
      /\ \A body \in LimitBodies :
           /\ create_task(token, body, FALSE).resp.status = 201
           /\ \A id \in DOMAIN tasks :
                IsOwner(token, id) =>
                  \A out \in Updates(token, id, body, FALSE) :
                    /\ out.resp.status = 200
                    /\ out.tasks[id].title = body.title

\* an owner of an updated task, whose title the update model lets grow to 255
\* characters and no further
C16_Witness ==
  \E token \in UserTokens, id \in DOMAIN tasks :
    /\ IsOwner(token, id)
    /\ tasks[id].title = "New"
    /\ update_task(token, id, [title |-> Title256], FALSE).resp.status = 422
    /\ update_task(token, id, [title |-> Title256], FALSE).tasks = tasks
    /\ Len(update_task(token, id, [title |-> Title255], FALSE).tasks[id].title) = 255
    /\ create_task(token, [title |-> ""], FALSE).resp.status = 422

----------------------------------------------------------------------------
(* Claims about passwords *)

\* the field names of the records a response body carries
BodyFields(response) ==
  UNION {DOMAIN response.body[k] : k \in 1..Len(response.body)}

\* C17: the hash a successful signup stores verifies against the password
\* submitted and against no other string; right after the signup step, login
\* with that email succeeds for that password and for no other; and no
\* response of signup, login, GET /auth/me or the token dependency carries
\* the hash.
C17_HashVerifiesOnlyItsPassword ==
  /\ [](/\ \A email \in Emails, password \in Passwords, salt \in Salts :
             LET out == signup_user(email, password, salt, FALSE)
             IN out.resp.status = 201 =>
                  /\ "hashed_password" \notin BodyFields(out.resp)
                  /\ \E u \in out.users \ users :
                       /\ u.email = email /\ out.users = users \cup {u}
                       /\ verify_password(password, u.hashed_password)
                       /\ \A other \in LoginPasswords \ {password} :
                            ~verify_password(other, u.hashed_password)
        /\ \A email \in LoginEmails, password \in LoginPasswords :
             "hashed_password" \notin BodyFields(login_for_access_token(email, password))
        /\ \A token \in UserTokens \cup issued :
             /\ "hashed_password" \notin BodyFields(read_users_me(token))
             /\ "hashed_password" \notin DOMAIN get_current_user(token).user)
  /\ [][users' # users =>
          \A c \in Credentials, p \in LoginPasswords :
            signup_user(c[1], c[2], 1, FALSE).users = users' =>
              (login_for_access_token(c[1], p)'.status = 200 <=> p = c[2])
      ]_vars

\* two users signed up with different passwords; each one's login succeeds
\* for the own password only, and one of them holds a token
C17_Witness ==
  /\ Cardinality(users) = 2
  /\ issued # {}
  /\ \A c \in Credentials, p \in LoginPasswords :
       login_for_access_token(c[1], p).status = IF p = c[2] THEN 200 ELSE 401
  /\ \A token \in issued : read_users_me(token).status = 200

\* what the policy finds wrong with a password
PasswordFaults(v) ==
  {d \in {"short", "no_upper", "no_lower", "no_digit"} :
     CASE d = "short" -> Len(v) < 8
       [] d = "no_upper" -> \A i \in 1..Len(v) : SubSeq(v, i, i) \notin Upper
       [] d = "no_lower" -> \A i \in 1..Len(v) : SubSeq(v, i, i) \notin Lower
       [] OTHER -> \A i \in 1..Len(v) : SubSeq(v, i, i) \notin Digits}

\* passwords a signup may carry: conforming ones (one of exactly 8
\* characters), and ones with a single fault or several
PasswordInputs ==
  Passwords \cup
  {"Abcdefg1", "Passw0rdPassw0rd", "Passw0r", "passw0rd", "PASSW0RD", "Password",
   "12345678", "password", "Aa1", ""}

\* C18: a signup whose password is shorter than 8 characters or has no
\* uppercase letter, no lowercase letter or no digit is answered 422 and adds
\* no user; a password with none of these faults is never answered 422, and
\* is answered 201 when the email is free; every user stored, and every
\* signup past its pre-check, carries the hash of a conforming password.
C18_PasswordPolicy ==
  /\ \A email \in Emails, password \in PasswordInputs, salt \in Salts, fail \in BOOLEAN :
       LET out == signup_user(email, password, salt, fail)
       IN IF PasswordFaults(password) # {}
            THEN /\ out.resp.status = 422
                 /\ out.users = users /\ out.nextUserId = nextUserId
            ELSE /\ out.resp.status # 422
                 /\ (~EmailRegistered(email) /\ ~fail) => out.resp.status = 201
  /\ \A u \in users : PasswordFaults(u.hashed_password.digest[2]) = {}
  /\ \A s \in SignupSlots :
       signups[s].pc = "checked" =>
         PasswordFaults(signups[s].hashed_password.digest[2]) = {}

\* one user stored, the other email free: a signup for it is refused for a
\* password with no uppercase letter and accepted for a conforming one
C18_Witness ==
  \E email \in Emails :
    /\ ~EmailRegistered(email)
    /\ Cardinality(users) = 1
    /\ signup_user(email, "passw0rd", 1, FALSE).resp.status = 422
    /\ signup_user(email, "Abcdefg1", 1, FALSE).resp.status = 201
    /\ \E s \in SignupSlots : signups[s].pc = "checked"

\* slot s commits its update of a task that is stored before and after
CommitsUpdate(s) ==
  /\ updating[s].pc = "stamped"
  /\ updating'[s].pc = "idle"
  /\ updating[s].id \in DOMAIN tasks
  /\ updating[s].id \in DOMAIN tasks'

\* C19: when an update commits, whatever other update committed since it
\* read the task, the stored updated_at is the value this update took from
\* the clock and every field its body provided holds the body's value.
C19_LastWriteWins ==
  [][\A s \in UpdateSlots :
       CommitsUpdate(s) =>
         /\ tasks'[updating[s].id].updated_at = updating[s].db_task.updated_at
         /\ \A f \in DOMAIN updating[s].update_data :
              tasks'[updating[s].id][f] = updating[s].update_data[f]
    ]_vars

\* C20: the stored updated_at of a task never decreases, whatever the
\* interleaving of the updates of that task.
C20_UpdatedAtNeverDecreases ==
  [][\A task_id \in DOMAIN tasks \cap DOMAIN tasks' :
       tasks'[task_id].updated_at >= tasks[task_id].updated_at
    ]_vars

\* what the models promise of a stored task
WellFormed(row) ==
  /\ row.title # Null /\ Len(row.title) >= 1 /\ Len(row.title) <= 255
  /\ row.description = Null \/ Len(row.description) <= 1000
  /\ row.status \in {"pending", "in_progress", "completed"}
  /\ row.priority \in {"low", "medium", "high"}

\* the bodies a create or an update is tried with: ones at and past the
\* limits, and ones that set a field to null
TriedBodies == NullingBodies \cup LimitBodies \cup RefusedBodies

\* C21: every stored task has a title of 1 to 255 characters, a description
\* that is null or of at most 1000 characters, a status and a priority of
\* the enumerations; and whatever body a create, a PUT or a PATCH carries,
\* null title, status or priority included, the table it leaves has only
\* such rows.
C21_StoredTasksWellFormed ==
  /\ \A id \in DOMAIN tasks : WellFormed(tasks[id])
  /\ \A token \in UserTokens, body \in TriedBodies :
       /\ LET out == create_task(token, body, FALSE)
          IN \A id \in DOMAIN out.tasks : WellFormed(out.tasks[id])
       /\ \A task_id \in DOMAIN tasks :
            \A out \in Updates(token, task_id, body, FALSE) :
              \A id \in DOMAIN out.tasks : WellFormed(out.tasks[id])

\* an updated task whose owner's PATCH of a null title, and PUT of a null
\* status, pass the update model and are refused by the table, which stays
\* as it was
C21_Witness ==
  \E token \in UserTokens, id \in DOMAIN tasks :
    /\ IsOwner(token, id)
    /\ tasks[id].title = "New"
    /\ ValidTaskUpdate([title |-> Null])
    /\ partial_update_task(token, id, [title |-> Null], FALSE).resp.status = 500
    /\ partial_update_task(token, id, [title |-> Null], FALSE).tasks = tasks
    /\ update_task(token, id, [status |-> Null], FALSE).resp.status = 500
    /\ update_task(token, id, [status |-> Null], FALSE).tasks = tasks

\* slot s reaches its commit when the task it read has been deleted
CommitsAfterDelete(s) ==
  /\ updating[s].pc = "stamped"
  /\ updating'[s].pc = "idle"
  /\ updating[s].id \notin DOMAIN tasks

\* C22: a deleted task never comes back to the table; an update that read
\* the task before the delete committed and commits after it does not
\* re-create the task and is answered 404.
C22_DeletedStaysDeleted ==
  [][/\ \A id \in DeletedIds : id \notin DOMAIN tasks'
     /\ \A s \in UpdateSlots :
          CommitsAfterDelete(s) =>
            /\ updating[s].id \notin DOMAIN tasks'
            /\ update_commit(updating[s].op, updating[s].caller, updating[s].id,
                             updating[s].loaded, updating[s].db_task).resp.status = 404
    ]_vars

----------------------------------------------------------------------------
(* The two resolvers of a bearer token *)

\* the dependency of the task routes and GET /auth/me give token the same
\* answer: both refuse it with 401, or both resolve it to the one stored user
\* whose id and email the token carries
ResolversAgree(token) ==
  LET by_id == get_current_user(token)
      by_email == read_users_me(token)
  IN /\ by_id.ok <=> by_email.status = 200
     /\ by_id.status = by_email.status
     /\ by_id.ok =>
          /\ by_email.body = <<by_id.user>>
          /\ by_email.caller = by_id.user.id
          /\ \E u \in users :
               /\ u.id = token.user_id /\ u.email = token.sub
               /\ by_id.user = UserResponse(u)
          /\ Cardinality({u \in users : u.id = token.user_id \/ u.email = token.sub}) = 1

\* C23: every token login has handed out, and the token every login that
\* succeeds now hands out, gets the same answer from the dependency of the
\* task routes (user looked up by user_id) and from GET /auth/me (user
\* looked up by the subject email): before its expiry both resolve it to the
\* user it was issued for, and at any time both accept it or both refuse it.
C23_ResolversEquivalent ==
  /\ \A token \in issued :
       /\ ResolversAgree(token)
       /\ now < token.exp => get_current_user(token).ok
  /\ \A email \in LoginEmails, password \in LoginPasswords :
       LET r == login_for_access_token(email, password)
       IN r.status = 200 =>
            /\ ResolversAgree(r.body[1])
            /\ get_current_user(r.body[1]).ok
            /\ get_current_user(r.body[1]).user.email = email
            /\ get_current_user(r.body[1]).user.id = r.caller

\* two users stored, and an unexpired token of the second to sign up, which
\* both resolvers accept
C23_Witness ==
  \E token \in issued :
    /\ Cardinality(users) = 2
    /\ token.user_id = 2
    /\ now < token.exp
    /\ get_current_user(token).user.id = 2
    /\ read_users_me(token).status = 200
    /\ read_users_me(token).body[1].email = token.sub

====
